---- MODULE Spec2Model ----
(***************************************************************************)
(* Model of the portfolio application: the client-side route table of      *)
(* app.routes.ts as the router resolves it (ordered first-match scan,      *)
(* absolute redirects, lazily loaded standalone components rendered in the *)
(* router outlet of App), and the reactive contact form ContactComponent   *)
(* (per-control validators, aggregate status, guarded submit()).           *)
(*                                                                         *)
(* A URL is a sequence of path segments; a form value is a sequence of     *)
(* one-character strings, so that length, trimming and the validators'     *)
(* regular expressions are computed rather than assumed.                   *)
(***************************************************************************)
EXTENDS Integers, Sequences, FiniteSets, TLC

VARIABLES
    \* ---- router ----
    navId,        \* id of the most recent navigation request (0: none yet)
    nav,          \* the current navigation: requested url, url being matched, hops, stage, page
    inflight,     \* page modules whose import() has been started and has not settled
    loaded,       \* page modules already fetched (the loader's cache)
    displayed,    \* the component rendered in <router-outlet>
    currentUrl,   \* the url of the activated route
    resolved,     \* history: what each requested url was last recognized as
    staleDrops,   \* history: import() completions that no live navigation was waiting for
    \* ---- contact form ----
    value,        \* control values
    errors,       \* control error sets
    status,       \* control statuses
    formStatus,   \* the FormGroup's aggregate status
    submitCalls,  \* history: number of submit() calls
    validCalls,   \* history: submit() calls made while every control's error set was empty
    handoffs,     \* number of times formData was taken for the API
    formData,     \* the last formData handed over
    warnings,     \* console.warn('Formulario invalido') lines written
    outcome       \* how the last submit() call ended

routerVars == <<navId, nav, inflight, loaded, displayed, currentUrl, resolved, staleDrops>>
formVars   == <<value, errors, status, formStatus, submitCalls, validCalls,
                handoffs, formData, warnings, outcome>>
vars       == <<routerVars, formVars>>

(***************************************************************************)
(* Bounds of the exploration.                                              *)
(***************************************************************************)
MaxNav == 3
MaxRedirects == 3
MaxSubmits == 2

None == "none"

(***************************************************************************)
(*                              ROUTER                                     *)
(***************************************************************************)
Pages == {"Inicial", "Resumo", "Sobre", "Contato"}

Root == << >>

\* The table without its catch-all entry.
routesNoWildcard ==
    << [path |-> "",        pathMatch |-> "full",   redirectTo |-> <<"inicio">>, redirects |-> TRUE,  loadComponent |-> None],
       [path |-> "inicio",  pathMatch |-> "prefix", redirectTo |-> << >>,        redirects |-> FALSE, loadComponent |-> "Inicial"],
       [path |-> "resumo",  pathMatch |-> "prefix", redirectTo |-> << >>,        redirects |-> FALSE, loadComponent |-> "Resumo"],
       [path |-> "sobre",   pathMatch |-> "prefix", redirectTo |-> << >>,        redirects |-> FALSE, loadComponent |-> "Sobre"],
       [path |-> "contato", pathMatch |-> "prefix", redirectTo |-> << >>,        redirects |-> FALSE, loadComponent |-> "Contato"] >>

\* The table with the root redirected to another page's path.
routesRootToResumo ==
    << [path |-> "",        pathMatch |-> "full",   redirectTo |-> <<"resumo">>, redirects |-> TRUE,  loadComponent |-> None],
       [path |-> "inicio",  pathMatch |-> "prefix", redirectTo |-> << >>,        redirects |-> FALSE, loadComponent |-> "Inicial"],
       [path |-> "resumo",  pathMatch |-> "prefix", redirectTo |-> << >>,        redirects |-> FALSE, loadComponent |-> "Resumo"],
       [path |-> "sobre",   pathMatch |-> "prefix", redirectTo |-> << >>,        redirects |-> FALSE, loadComponent |-> "Sobre"],
       [path |-> "contato", pathMatch |-> "prefix", redirectTo |-> << >>,        redirects |-> FALSE, loadComponent |-> "Contato"],
       [path |-> "**",      pathMatch |-> "prefix", redirectTo |-> <<"inicio">>, redirects |-> TRUE,  loadComponent |-> None] >>

\* The table with the catch-all redirected to a path no literal entry declares.
routesWildcardToHome ==
    << [path |-> "",        pathMatch |-> "full",   redirectTo |-> <<"inicio">>, redirects |-> TRUE,  loadComponent |-> None],
       [path |-> "inicio",  pathMatch |-> "prefix", redirectTo |-> << >>,        redirects |-> FALSE, loadComponent |-> "Inicial"],
       [path |-> "resumo",  pathMatch |-> "prefix", redirectTo |-> << >>,        redirects |-> FALSE, loadComponent |-> "Resumo"],
       [path |-> "sobre",   pathMatch |-> "prefix", redirectTo |-> << >>,        redirects |-> FALSE, loadComponent |-> "Sobre"],
       [path |-> "contato", pathMatch |-> "prefix", redirectTo |-> << >>,        redirects |-> FALSE, loadComponent |-> "Contato"],
       [path |-> "**",      pathMatch |-> "prefix", redirectTo |-> <<"home">>,   redirects |-> TRUE,  loadComponent |-> None] >>

\* app.routes.ts, in declaration order.  redirectTo '/inicio' is the absolute
\* url with the single segment inicio.
routes ==
    << [path |-> "",        pathMatch |-> "full",   redirectTo |-> <<"inicio">>, redirects |-> TRUE,  loadComponent |-> None],
       [path |-> "inicio",  pathMatch |-> "prefix", redirectTo |-> << >>,        redirects |-> FALSE, loadComponent |-> "Inicial"],
       [path |-> "resumo",  pathMatch |-> "prefix", redirectTo |-> << >>,        redirects |-> FALSE, loadComponent |-> "Resumo"],
       [path |-> "sobre",   pathMatch |-> "prefix", redirectTo |-> << >>,        redirects |-> FALSE, loadComponent |-> "Sobre"],
       [path |-> "contato", pathMatch |-> "prefix", redirectTo |-> << >>,        redirects |-> FALSE, loadComponent |-> "Contato"],
       [path |-> "**",      pathMatch |-> "prefix", redirectTo |-> <<"inicio">>, redirects |-> TRUE,  loadComponent |-> None] >>

\* The urls the navigation requests are drawn from: the root, each declared
\* literal, an unknown segment, and two-segment urls that start or end with a
\* declared literal.
Paths ==
    { Root, <<"inicio">>, <<"resumo">>, <<"sobre">>, <<"contato">>,
      <<"unknown-path">>, <<"inicio", "x">>, <<"x", "contato">> }

LiteralPaths == { <<routes[i].path>> : i \in {j \in 1..Len(routes) : routes[j].path \notin {"", "**"}} }

\* Does route r match url?  '**' matches anything; '' with pathMatch full
\* matches only the empty url; a literal consumes the first segment, and as no
\* route has children the rest of the url must then be empty.
Matches(r, url) ==
    IF r.path = "**" THEN TRUE
    ELSE IF r.path = "" THEN (r.pathMatch = "full" => Len(url) = 0)
    ELSE Len(url) = 1 /\ url[1] = r.path

\* The scan taking the last matching route instead of the first.
FirstMatchLast(url) ==
    LET hits == {i \in 1..Len(routes) : Matches(routes[i], url)}
    IN  IF hits = {} THEN 0 ELSE CHOOSE i \in hits : \A j \in hits : j <= i

\* Index of the first route, in declaration order, that matches url; 0 if none.
FirstMatch(url) ==
    LET hits == {i \in 1..Len(routes) : Matches(routes[i], url)}
    IN  IF hits = {} THEN 0 ELSE CHOOSE i \in hits : \A j \in hits : i <= j

\* Nothing recognized yet for a url.
NoResult == [page |-> None, url |-> Root, hops |-> 0, entry |-> 0]

Idle == [requested |-> Root, url |-> Root, hops |-> 0, stage |-> "idle", page |-> None, via |-> 0]

RouterInit ==
    /\ navId = 0
    /\ nav = Idle
    /\ inflight = {}
    /\ loaded = {}
    /\ displayed = None
    /\ currentUrl = Root
    /\ resolved = [p \in Paths |-> NoResult]
    /\ staleDrops = 0

\* router.navigateByUrl(p) / a routerLink click: a new navigation replaces the
\* current one, whatever stage that one had reached.  An import() the old one
\* started keeps running.
Navigate(p) ==
    /\ navId < MaxNav
    /\ navId' = navId + 1
    /\ nav' = [requested |-> p, url |-> p, hops |-> 0, stage |-> "recognize", page |-> None, via |-> 0]
    /\ UNCHANGED <<inflight, loaded, displayed, currentUrl, resolved, staleDrops>>
    /\ UNCHANGED formVars

\* Is a settled import() of page pg the one the live navigation waits for?
IsAwaitedMut(pg) == TRUE

IsAwaited(pg) == nav.stage = "load" /\ nav.page = pg

\* One matching pass of the current navigation over the route table.
Recognize ==
    /\ nav.stage = "recognize"
    /\ LET i == FirstMatch(nav.url) IN
       IF i = 0 THEN
            /\ nav' = [nav EXCEPT !.stage = "error"]
            /\ UNCHANGED <<inflight, loaded, displayed, currentUrl, resolved>>
       ELSE IF routes[i].redirects THEN
            /\ nav' = IF nav.hops < MaxRedirects
                      THEN [nav EXCEPT !.url = routes[i].redirectTo, !.hops = @ + 1, !.via = i]
                      ELSE [nav EXCEPT !.stage = "error"]
            /\ UNCHANGED <<inflight, loaded, displayed, currentUrl, resolved>>
       ELSE LET pg == routes[i].loadComponent IN
            /\ resolved' = [resolved EXCEPT ![nav.requested] =
                                [page |-> pg, url |-> nav.url, hops |-> nav.hops, entry |-> i]]
            /\ IF pg \in loaded
               THEN /\ nav' = [nav EXCEPT !.stage = "done", !.page = pg]
                    /\ displayed' = pg
                    /\ currentUrl' = nav.url
                    /\ UNCHANGED inflight
               ELSE /\ nav' = [nav EXCEPT !.stage = "load", !.page = pg]
                    /\ inflight' = inflight \cup {pg}
                    /\ UNCHANGED <<displayed, currentUrl>>
            /\ UNCHANGED loaded
    /\ UNCHANGED <<navId, staleDrops>>
    /\ UNCHANGED formVars

\* The import() of page module pg settles.  The module is cached; it is
\* rendered only if the live navigation is the one waiting for it.
LoadComplete(pg) ==
    /\ pg \in inflight
    /\ inflight' = inflight \ {pg}
    /\ loaded' = loaded \cup {pg}
    /\ IF IsAwaited(pg)
       THEN /\ displayed' = pg
            /\ currentUrl' = nav.url
            /\ nav' = [nav EXCEPT !.stage = "done"]
            /\ UNCHANGED staleDrops
       ELSE /\ staleDrops' = staleDrops + 1
            /\ UNCHANGED <<displayed, currentUrl, nav>>
    /\ UNCHANGED <<navId, resolved>>
    /\ UNCHANGED formVars

RouterNext ==
    \/ \E p \in Paths : Navigate(p)
    \/ Recognize
    \/ \E pg \in Pages : LoadComplete(pg)

(***************************************************************************)
(*                           CONTACT FORM                                  *)
(***************************************************************************)
Fields == {"email", "name", "message", "phone"}

Whitespace == {" "}
Digits == {"0", "1", "5", "9"}
Letters == {"a", "b", "c", "e", "i", "l", "m", "n", "o", "t"}
AlphaNum == Letters \cup Digits
\* The characters the email expression allows in an atom of the local part.
AText == AlphaNum \cup {"-", "+"}

Rep(c, n) == [i \in 1..n |-> c]

\* String.prototype.trim(): the value without leading and trailing whitespace.
Trim(s) ==
    IF \A i \in 1..Len(s) : s[i] \in Whitespace THEN << >>
    ELSE LET lo == CHOOSE i \in 1..Len(s) :
                      s[i] \notin Whitespace /\ \A j \in 1..(i - 1) : s[j] \in Whitespace
             hi == CHOOSE i \in 1..Len(s) :
                      s[i] \notin Whitespace /\ \A j \in (i + 1)..Len(s) : s[j] \in Whitespace
         IN  SubSeq(s, lo, hi)

\* The validators' common test for "nothing entered": null, or length 0.
isEmptyInputValueMut(v) == Trim(v) = << >>

isEmptyInputValue(v) == Len(v) = 0

\* s is one or more non-empty runs of characters of class cls separated by ".".
DotSeparated(s, cls) ==
    /\ Len(s) >= 1
    /\ s[1] # "." /\ s[Len(s)] # "."
    /\ \A i \in 1..Len(s) : s[i] = "." \/ s[i] \in cls
    /\ \A i \in 1..(Len(s) - 1) : ~(s[i] = "." /\ s[i + 1] = ".")

\* A domain: labels separated by ".", each 1..63 long, of letters, digits and
\* hyphens, beginning and ending with a letter or digit.
IsDomain(d) ==
    /\ DotSeparated(d, AlphaNum \cup {"-"})
    /\ d[1] # "-" /\ d[Len(d)] # "-"
    /\ \A i \in 1..(Len(d) - 1) : ~(d[i] = "-" /\ d[i + 1] = ".") /\ ~(d[i] = "." /\ d[i + 1] = "-")
    /\ \A i \in 1..Len(d) : \A j \in i..Len(d) :
          (\A k \in i..j : d[k] # ".") => j - i + 1 <= 63

\* Validators.email's expression: 1..254 characters, a local part of 1..64
\* characters made of dot-separated atoms, "@", a domain.
EmailRegexp(v) ==
    /\ Len(v) >= 1 /\ Len(v) <= 254
    /\ \E at \in 1..Len(v) :
          /\ v[at] = "@"
          /\ at - 1 >= 1 /\ at - 1 <= 64
          /\ DotSeparated(SubSeq(v, 1, at - 1), AText)
          /\ IsDomain(SubSeq(v, at + 1, Len(v)))

\* The phone control's pattern /^(\+55|0)?(\d{2})?(\d{4,5})-?(\d{4})$/.
PhoneRegexp(v) ==
    \E pre \in {<< >>, <<"+", "5", "5">>, <<"0">>}, ddd \in {0, 2}, n \in {4, 5}, hy \in {0, 1} :
        LET p == Len(pre) IN
        /\ Len(v) = p + ddd + n + hy + 4
        /\ SubSeq(v, 1, p) = pre
        /\ \A i \in (p + 1)..(p + ddd + n) : v[i] \in Digits
        /\ hy = 1 => v[p + ddd + n + 1] = "-"
        /\ \A i \in (p + ddd + n + hy + 1)..Len(v) : v[i] \in Digits

\* The validator lists with the message's minLength left out.
validatorsNoMin ==
    [ email   |-> << [kind |-> "required", n |-> 0], [kind |-> "email", n |-> 0] >>,
      name    |-> << [kind |-> "required", n |-> 0], [kind |-> "minlength", n |-> 3],
                     [kind |-> "maxlength", n |-> 50] >>,
      message |-> << [kind |-> "required", n |-> 0], [kind |-> "maxlength", n |-> 1000] >>,
      phone   |-> << [kind |-> "pattern", n |-> 0] >> ]

\* The validator lists given to fb.group, control by control.
validators ==
    [ email   |-> << [kind |-> "required", n |-> 0], [kind |-> "email", n |-> 0] >>,
      name    |-> << [kind |-> "required", n |-> 0], [kind |-> "minlength", n |-> 3],
                     [kind |-> "maxlength", n |-> 50] >>,
      message |-> << [kind |-> "required", n |-> 0], [kind |-> "minlength", n |-> 10],
                     [kind |-> "maxlength", n |-> 1000] >>,
      phone   |-> << [kind |-> "pattern", n |-> 0] >> ]

\* Does rule r report an error for value v?  Every validator but required
\* accepts the empty value, so that optional controls can stay empty.
Fails(r, v) ==
    CASE r.kind = "required"  -> isEmptyInputValue(v)
      [] r.kind = "email"     -> ~isEmptyInputValue(v) /\ ~EmailRegexp(v)
      [] r.kind = "minlength" -> ~isEmptyInputValue(v) /\ Len(v) < r.n
      [] r.kind = "maxlength" -> Len(v) > r.n
      [] r.kind = "pattern"   -> ~isEmptyInputValue(v) /\ ~PhoneRegexp(v)

\* The control's error set: the kinds of all of its rules that fail
\* (Validators.compose merges the error maps of all validators).
validate(f, v) ==
    LET rs == validators[f] IN {rs[i].kind : i \in {j \in 1..Len(rs) : Fails(rs[j], v)}}

\* A control is VALID iff it has no errors.
controlStatus(errs) == IF errs = {} THEN "VALID" ELSE "INVALID"

\* The group is INVALID iff some control is.
groupStatusMut(st) == IF \E f \in {"email", "message"} : st[f] = "INVALID" THEN "INVALID" ELSE "VALID"

groupStatus(st) == IF \E f \in Fields : st[f] = "INVALID" THEN "INVALID" ELSE "VALID"

\* Values a control can be given.  The email input is type="email", whose
\* value never carries leading or trailing whitespace.
Inputs ==
    [ email   |-> { << >>,
                    <<"a", "@", "b", ".", "c", "o", "m">>,
                    <<"n", "o", "t", "-", "a", "n", "-", "e", "m", "a", "i", "l">>,
                    <<"a", "@", "b", "-", ".", "c">> },
      name    |-> { << >>, Rep("a", 2), Rep(" ", 3), Rep("a", 3), Rep("a", 51) },
      message |-> { << >>, Rep("a", 5), Rep("a", 9), Rep(" ", 10), Rep("a", 50), Rep("a", 1001) },
      phone   |-> { << >>,
                    Rep("9", 5) \o <<"-">> \o Rep("9", 4),
                    <<"+", "5", "5">> \o Rep("1", 11),
                    <<"a", "b", "c">> } ]

FormInit ==
    /\ value = [f \in Fields |-> << >>]
    /\ errors = [f \in Fields |-> validate(f, << >>)]
    /\ status = [f \in Fields |-> controlStatus(validate(f, << >>))]
    /\ formStatus = groupStatus([f \in Fields |-> controlStatus(validate(f, << >>))])
    /\ submitCalls = 0
    /\ validCalls = 0
    /\ handoffs = 0
    /\ formData = None
    /\ warnings = 0
    /\ outcome = None

\* setValue keeping the errors the control had before.
setValueMut(f, v) ==
    /\ value[f] # v
    /\ value' = [value EXCEPT ![f] = v]
    /\ errors' = [errors EXCEPT ![f] = @ \cup validate(f, v)]
    /\ status' = [status EXCEPT ![f] = controlStatus(errors'[f])]
    /\ formStatus' = groupStatus(status')
    /\ UNCHANGED <<submitCalls, validCalls, handoffs, formData, warnings, outcome>>
    /\ UNCHANGED routerVars

\* An input event on control f (or control.setValue(v)): the value is stored,
\* the control's validators run, and the new status propagates to the group.
setValue(f, v) ==
    /\ value[f] # v
    /\ value' = [value EXCEPT ![f] = v]
    /\ errors' = [errors EXCEPT ![f] = validate(f, v)]
    /\ status' = [status EXCEPT ![f] = controlStatus(errors'[f])]
    /\ formStatus' = groupStatus(status')
    /\ UNCHANGED <<submitCalls, validCalls, handoffs, formData, warnings, outcome>>
    /\ UNCHANGED routerVars

\* The guard at the top of submit().
invalidMut == FALSE

invalid == formStatus = "INVALID"

\* Every control's error set is empty at the moment of the call.
NoErrors == \A f \in Fields : errors[f] = {}

\* submit() clearing the form when it rejects.
submitBodyMut ==
    /\ submitCalls < MaxSubmits
    /\ submitCalls' = submitCalls + 1
    /\ validCalls' = IF NoErrors THEN validCalls + 1 ELSE validCalls
    /\ IF invalid
       THEN /\ warnings' = warnings + 1
            /\ outcome' = "rejected"
            /\ value' = [f \in Fields |-> << >>]
            /\ errors' = [f \in Fields |-> validate(f, << >>)]
            /\ status' = [f \in Fields |-> controlStatus(errors'[f])]
            /\ formStatus' = groupStatus(status')
            /\ UNCHANGED <<handoffs, formData>>
       ELSE /\ handoffs' = handoffs + 1
            /\ formData' = value
            /\ outcome' = "sent"
            /\ UNCHANGED <<warnings, value, errors, status, formStatus>>
    /\ UNCHANGED routerVars

\* submit(): warn and return when the form is invalid, otherwise take the
\* form's value for the API.
submitBody ==
    /\ submitCalls < MaxSubmits
    /\ submitCalls' = submitCalls + 1
    /\ validCalls' = IF NoErrors THEN validCalls + 1 ELSE validCalls
    /\ IF invalid
       THEN /\ warnings' = warnings + 1
            /\ outcome' = "rejected"
            /\ UNCHANGED <<handoffs, formData>>
       ELSE /\ handoffs' = handoffs + 1
            /\ formData' = value
            /\ outcome' = "sent"
            /\ UNCHANGED warnings
    /\ UNCHANGED <<value, errors, status, formStatus>>
    /\ UNCHANGED routerVars

\* submit() called directly.
submit == submitBody

\* The template's button is [disabled]="contactForm.invalid".
submitDisabled == invalid

\* A click on the enabled button raises ngSubmit, which calls submit().
ngSubmit == ~submitDisabled /\ submitBody

FormNext ==
    \/ \E f \in Fields : \E v \in Inputs[f] : setValue(f, v)
    \/ submit
    \/ ngSubmit

(***************************************************************************)
(*                          SPECIFICATIONS                                 *)
(***************************************************************************)
Init == RouterInit /\ FormInit

Next == RouterNext \/ FormNext

\* The router and the form together.
Spec == Init /\ [][Next]_vars

\* The router alone: the form stays as constructed.
SpecRouter == Init /\ [][RouterNext]_vars

\* The form alone: no navigation takes place.
SpecForm == Init /\ [][FormNext]_vars

(***************************************************************************)
(*                             PROPERTIES                                  *)
(***************************************************************************)
Home == <<"inicio">>

\* The page the home path /inicio resolves to.
HomePage == routes[FirstMatch(Home)].loadComponent

\* A url that is neither the root nor one of the declared literal paths.
NonLiteral(p) == p # Root /\ p \notin LiteralPaths

\* The controls configured with Validators.required.
RequiredFields == {f \in Fields : \E i \in 1..Len(validators[f]) : validators[f][i].kind = "required"}

\* C1: every url that is neither the root nor a declared literal resolves to
\* the page /inicio resolves to (Inicial), and no navigation ever ends in an
\* unmatched or error state.
C1_CatchAll ==
    /\ nav.stage # "error"
    /\ \A p \in Paths :
          (NonLiteral(p) /\ resolved[p] # NoResult) =>
              /\ resolved[p].page = HomePage
              /\ resolved[p].page = "Inicial"
              /\ resolved[p].url = Home
              /\ resolved[Home] # NoResult => resolved[p].page = resolved[Home].page
    /\ (nav.stage = "done" /\ NonLiteral(nav.requested)) => displayed = HomePage

C1_Witness ==
    /\ resolved[<<"unknown-path">>] # NoResult
    /\ resolved[Home] # NoResult
    /\ nav.requested = <<"inicio", "x">>
    /\ nav.stage = "done"
    /\ displayed = "Inicial"

\* C2: once the current navigation has been recognized and no import() is
\* outstanding, the outlet shows the page of the most recent navigation
\* request; a completion nobody waits for has not replaced it.
C2_LatestNavigationWins ==
    (nav.stage \in {"load", "done"} /\ inflight = {}) =>
        /\ nav.stage = "done"
        /\ displayed = resolved[nav.requested].page
        /\ displayed = nav.page
        /\ currentUrl = nav.url

C2_Witness ==
    /\ staleDrops >= 1
    /\ inflight = {}
    /\ "Sobre" \in loaded
    /\ nav.requested = <<"contato">>
    /\ nav.stage = "done"
    /\ displayed = "Contato"

C4_RootIsHome ==
    /\ resolved[Root] # NoResult =>
          /\ resolved[Root].page = HomePage
          /\ resolved[Root].url = Home
          /\ resolved[Home] # NoResult =>
                resolved[Root].page = resolved[Home].page /\ resolved[Root].url = resolved[Home].url
    /\ (nav.stage = "done" /\ nav.requested = Root) => (displayed = HomePage /\ currentUrl = Home)

C4_Witness ==
    /\ resolved[Root] # NoResult
    /\ resolved[Home] # NoResult
    /\ nav.requested = Root
    /\ nav.stage = "done"

\* C5: the group's status is VALID exactly when all four controls are VALID,
\* and the submit button is enabled only when it is.
C5_AggregateValidity ==
    /\ (formStatus = "VALID") <=> (\A f \in Fields : status[f] = "VALID")
    /\ ~submitDisabled => (formStatus = "VALID" /\ \A f \in Fields : validate(f, value[f]) = {})

C5_Witness ==
    /\ status["email"] = "VALID"
    /\ status["message"] = "VALID"
    /\ status["phone"] = "VALID"
    /\ status["name"] = "INVALID"
    /\ formStatus = "INVALID"
    /\ submitDisabled

C7_ErrorsFollowValue ==
    \A f \in Fields :
        /\ errors[f] = validate(f, value[f])
        /\ (status[f] = "VALID") <=> (errors[f] = {})

C7_Witness ==
    /\ errors["message"] = {}
    /\ value["message"] = Rep("a", 50)
    /\ errors["name"] = {"maxlength"}
    /\ errors["email"] = {"email"}

\* C8 as stated: a control with the required rule has the required error
\* exactly when its value is empty after trimming.
C8_RequiredAfterTrim ==
    \A f \in RequiredFields : ("required" \in errors[f]) <=> (Trim(value[f]) = << >>)

\* C8: a control with the required rule has the required error exactly when
\* its value has length 0; a non-empty value of whitespace only does not
\* have it.
C8_RequiredIffEmpty ==
    \A f \in RequiredFields :
        /\ ("required" \in errors[f]) <=> (Len(value[f]) = 0)
        /\ (Len(value[f]) > 0 /\ Trim(value[f]) = << >>) => "required" \notin errors[f]

C8_Witness ==
    /\ value["name"] = Rep(" ", 3)
    /\ errors["name"] = {}
    /\ value["message"] = Rep(" ", 10)
    /\ "required" \notin errors["message"]

\* C9 as stated: for the message control the empty value has the required
\* error, every value shorter than 10 has the minlength error, and a value of
\* length 50 has no error.
C9_MessageRulesAsStated ==
    LET v == value["message"]
        e == errors["message"]
    IN  /\ Len(v) = 0 => "required" \in e
        /\ Len(v) < 10 => "minlength" \in e
        /\ Len(v) = 50 => e = {}

\* C9: for the message control the empty value has the required error (and
\* not minlength), every non-empty value shorter than 10 has the minlength
\* error, and a value of length 50 has no error.
C9_MessageRules ==
    LET v == value["message"]
        e == errors["message"]
    IN  /\ Len(v) = 0 => ("required" \in e /\ "minlength" \notin e)
        /\ (Len(v) >= 1 /\ Len(v) < 10) => "minlength" \in e
        /\ Len(v) = 50 => e = {}

C9_Witness ==
    /\ Len(value["message"]) = 5
    /\ errors["message"] = {"minlength"}

\* C10: a navigation follows at most one redirect; the step that follows a
\* redirect entry starts no import() and renders nothing; the redirect's
\* target matches an entry that loads a page; resolution never ends in error.
C10_OneRedirectHop ==
    /\ [](/\ nav.hops <= 1
          /\ nav.stage # "error"
          /\ \A p \in Paths : resolved[p].hops <= 1
          /\ (nav.stage = "recognize" /\ nav.hops = 1) =>
                (FirstMatch(nav.url) # 0 /\ ~routes[FirstMatch(nav.url)].redirects)
          /\ nav.stage \in {"load", "done"} =>
                (~routes[resolved[nav.requested].entry].redirects /\ nav.page \in Pages))
    /\ [][nav'.hops = nav.hops + 1 =>
             (inflight' = inflight /\ loaded' = loaded /\ displayed' = displayed
              /\ currentUrl' = currentUrl /\ nav'.page = None)]_vars

C10_Witness ==
    /\ nav.requested = <<"unknown-path">>
    /\ nav.hops = 1
    /\ nav.via = Len(routes)
    /\ nav.stage = "done"
    /\ resolved[Root].hops = 1

\* The page each literal path is declared to load.
OwnPage == [inicio |-> "Inicial", resumo |-> "Resumo", sobre |-> "Sobre", contato |-> "Contato"]

\* C11: the wildcard entry is the last of the table, and each literal path
\* inicio, resumo, sobre, contato is matched by its own entry, which comes
\* before the wildcard: it resolves without a redirect to its own page, and
\* that page is what the outlet shows when the navigation is done.
C11_LiteralBeforeWildcard ==
    /\ routes[Len(routes)].path = "**"
    /\ \A i \in 1..(Len(routes) - 1) : routes[i].path # "**"
    /\ \A seg \in DOMAIN OwnPage :
          LET p == <<seg>> IN
          /\ (nav.requested = p /\ nav.stage # "idle") => (nav.hops = 0 /\ nav.via = 0 /\ nav.url = p)
          /\ (nav.requested = p /\ nav.stage = "recognize") =>
                /\ FirstMatch(nav.url) \in 1..(Len(routes) - 1)
                /\ routes[FirstMatch(nav.url)].path = seg
                /\ \A j \in 1..(FirstMatch(nav.url) - 1) : ~Matches(routes[j], nav.url)
          /\ (nav.requested = p /\ nav.stage \in {"load", "done"}) => nav.page = OwnPage[seg]
          /\ (nav.requested = p /\ nav.stage = "done") => (displayed = OwnPage[seg] /\ currentUrl = p)
          /\ resolved[p] # NoResult =>
                /\ resolved[p].page = OwnPage[seg]
                /\ resolved[p].url = p
                /\ resolved[p].hops = 0
                /\ routes[resolved[p].entry].path = seg
                /\ resolved[p].entry < Len(routes)

C11_Witness ==
    /\ resolved[<<"resumo">>] # NoResult
    /\ resolved[<<"sobre">>] # NoResult
    /\ resolved[<<"contato">>] # NoResult
    /\ nav.requested = <<"contato">>
    /\ nav.stage = "done"
    /\ displayed = "Contato"

====
